---------------------------- MODULE Spec2Model ----------------------------
(***************************************************************************)
(* Model of talxwev-notify (src/index.ts): a registry of toasts, the       *)
(* per-position containers, the process-wide configuration and the timers  *)
(* that drive a toast from show to removal.                                *)
(*                                                                         *)
(* Time is in milliseconds.  A scheduled callback (setTimeout) never runs  *)
(* before it is due and may run late; among callbacks, one scheduled       *)
(* earlier with a due time that is not later runs first.                   *)
(***************************************************************************)
EXTENDS Integers, Sequences, FiniteSets, TLC

VARIABLES
    browser,      \* isBrowser(): window and document exist
    now,          \* Date.now()
    TOASTS,       \* Map<string, InternalToast>, in insertion order
    CONTAINERS,   \* Map<string, HTMLElement>: key -> container element
    globalConfig, \* Partial<NotifyOptions>
    insts,        \* every InternalToast created so far, with its closure
    timers,       \* callbacks scheduled with setTimeout and not yet run,
                  \* in the order they were scheduled
    raf,          \* toasts whose requestAnimationFrame callback is pending
    styleCount,   \* <style id="talxwev-notify-styles"> elements in the page
    last          \* the public call made last and what it returned

vars == <<browser, now, TOASTS, CONTAINERS, globalConfig, insts, timers,
          raf, styleCount, last>>

---------------------------------------------------------------------------
(* Bounds of the model *)

MaxInst == 2
MaxTime == 440
MaxTimers == 2

(* Program constants *)

TRANSITION_MS == 220
DEFAULT_DURATION == 4000

---------------------------------------------------------------------------
(* Values *)

EmptyId == <<>>
NoOpts == [f \in {} |-> 0]

FieldNames ==
    {"id", "title", "message", "type", "duration", "closable", "pauseOnHover",
     "position", "containerClass", "toastClass", "injectStyles", "onClose",
     "render"}

DEFAULTS ==
    [id |-> EmptyId, title |-> "", message |-> "", type |-> "info",
     duration |-> DEFAULT_DURATION, closable |-> TRUE, pauseOnHover |-> TRUE,
     position |-> "top-right", containerClass |-> "", toastClass |-> "",
     injectStyles |-> TRUE, onClose |-> "noop", render |-> "null"]

Max(a, b) == IF a >= b THEN a ELSE b

\* Object.assign({}, a, b): b's own fields override a's
Assign(a, b) ==
    [f \in (DOMAIN a) \cup (DOMAIN b) |-> IF f \in DOMAIN b THEN b[f] ELSE a[f]]

---------------------------------------------------------------------------
(* The toast registry: a Map, as the sequence of its entries *)

Has(T, id) == \E k \in 1..Len(T) : T[k].id = id

Get(T, id) == (CHOOSE k \in 1..Len(T) : T[k].id = id)

Inst(T, id) == T[Get(T, id)].inst

\* a registry that adds an entry whether or not the key is there
MapSetAppend(T, id, i) == Append(T, [id |-> id, inst |-> i])

\* Map.set: an existing key keeps its place
MapSet(T, id, i) ==
    IF Has(T, id)
    THEN [T EXCEPT ![Get(T, id)] = [id |-> id, inst |-> i]]
    ELSE Append(T, [id |-> id, inst |-> i])

\* delete emptying the whole registry
MapClear(T, id) == <<>>

RECURSIVE Without(_, _)
Without(T, id) ==
    IF T = <<>> THEN <<>>
    ELSE IF Head(T).id = id THEN Without(Tail(T), id)
    ELSE <<Head(T)>> \o Without(Tail(T), id)

MapDelete(T, id) == Without(T, id)

Keys(T) == [k \in 1..Len(T) |-> T[k].id]


---------------------------------------------------------------------------
(* The container registry *)

\* position + (containerClass ? `|${containerClass}` : ""), as its parts
KeyOf(position, containerClass) ==
    IF containerClass # "" THEN <<position, "|", containerClass>>
    ELSE <<position>>

HasContainer(C, key) == \E k \in 1..Len(C) : C[k].key = key

ContainerEl(C, key) == C[CHOOSE k \in 1..Len(C) : C[k].key = key].el

\* a container made on every call
containerForFresh(C, position, containerClass) ==
    Append(C, [key |-> KeyOf(position, containerClass), el |-> Len(C) + 1])

\* containerFor, in a browser: the registry after the call
containerFor(C, position, containerClass) ==
    LET key == KeyOf(position, containerClass)
    IN  IF HasContainer(C, key) THEN C
        ELSE Append(C, [key |-> key, el |-> Len(C) + 1])

\* injectDefaultStyles, in a browser: the number of style elements after it
injectDefaultStyles(n) == IF n > 0 THEN n ELSE n + 1

---------------------------------------------------------------------------
(* Timers *)

AutoTimer(handle, id, i, due) ==
    [handle |-> handle, kind |-> "auto", id |-> id, inst |-> i, due |-> due]

RemoveTimer(handle, id, i, due) ==
    [handle |-> handle, kind |-> "remove", id |-> id, inst |-> i, due |-> due]

\* the handle setTimeout returns: a positive number that no pending callback
\* has and no toast still holds
FreshHandle(h) ==
    CHOOSE n \in 1..(Len(h.timers) + Len(h.insts) + 1) :
        /\ \A k \in 1..Len(h.timers) : h.timers[k].handle # n
        /\ \A k \in 1..Len(h.insts) : h.insts[k].timeoutId # n

RECURSIVE Cancel(_, _)
Cancel(ts, handle) ==
    IF ts = <<>> THEN <<>>
    ELSE IF Head(ts).handle = handle THEN Cancel(Tail(ts), handle)
    ELSE <<Head(ts)>> \o Cancel(Tail(ts), handle)

\* clearTimeout(handle): undefined (0) and handles no longer pending do nothing
clearTimeout(ts, handle) == Cancel(ts, handle)

\* a callback may run once it is due and no callback scheduled before it
\* with a due time that is not later is still waiting
MayRun(k) ==
    /\ timers[k].due <= now
    /\ \A j \in 1..(k - 1) : timers[j].due > timers[k].due

---------------------------------------------------------------------------
(* dismiss(id), in a browser, on the heap h = [insts, timers]              *)

\* dismiss falling back on the oldest registered toast when the id is unknown
DismissOnFallback(h, T, id) ==
    IF T = <<>> THEN h
    ELSE LET i == IF Has(T, id) THEN Inst(T, id) ELSE T[1].inst
             cleared == IF h.insts[i].timeoutId # 0
                        THEN clearTimeout(h.timers, h.insts[i].timeoutId)
                        ELSE h.timers
         IN  [insts |-> [h.insts EXCEPT ![i].hide = TRUE],
              timers |-> Append(cleared,
                  RemoveTimer(FreshHandle(h), id, i, now + TRANSITION_MS))]

DismissOn(h, T, id) ==
    IF ~Has(T, id) THEN h
    ELSE LET i == Inst(T, id)
             cleared == IF h.insts[i].timeoutId # 0
                        THEN clearTimeout(h.timers, h.insts[i].timeoutId)
                        ELSE h.timers
         IN  [insts |-> [h.insts EXCEPT ![i].hide = TRUE],
              timers |-> Append(cleared,
                  RemoveTimer(FreshHandle(h), id, i, now + TRANSITION_MS))]

\* clear dismissing only the first registered id
DismissFirstOnly(h, T, ids) ==
    IF ids = <<>> THEN h ELSE DismissOn(h, T, Head(ids))

RECURSIVE DismissAll(_, _, _)
DismissAll(h, T, ids) ==
    IF ids = <<>> THEN h
    ELSE DismissAll(DismissOn(h, T, Head(ids)), T, Tail(ids))

Heap == [insts |-> insts, timers |-> timers]

SetHeap(h) ==
    /\ insts' = h.insts
    /\ timers' = h.timers

\* the model takes no step that leaves more than MaxTimers callbacks pending
TimersFit == Len(timers') <= MaxTimers

---------------------------------------------------------------------------
(* Inputs *)

Suffixes == {"r1", "r2"}

\* makeId: "t_" + Date.now() + "_" + a random suffix
makeId(r) == <<"t_", now, "_", r>>

UserIds == {<<"a">>, <<"b">>}

Steps == {110}

\* the option records the callers of this model pass
DurationParts == {[duration |-> d] : d \in {0, 220}}
HoverParts == {NoOpts, [pauseOnHover |-> FALSE]}

LifeOpts == {Assign([id |-> x], d) : x \in UserIds, d \in DurationParts}

HoverOpts == {Assign([id |-> <<"a">>], Assign(d, h)) : d \in DurationParts, h \in HoverParts}

ReuseOpts == {[id |-> <<"a">>, duration |-> 220]}

PairOpts ==
    {[id |-> <<"a">>, duration |-> 220], [id |-> <<"b">>, duration |-> 220]}

PlaceOpts ==
    {[id |-> <<"a">>, duration |-> 0, position |-> "top-left"],
     [id |-> <<"b">>, duration |-> 0, position |-> "top-left"],
     [id |-> <<"b">>, duration |-> 0, position |-> "top-left",
      containerClass |-> "x"]}

ApiOpts ==
    {NoOpts, [id |-> <<"a">>], [id |-> EmptyId, position |-> "top-left"]}

MaybeOpts == {[message |-> "y", duration |-> 0]}

WrapOpts == {[type |-> "error"]}

ConfigOpts ==
    {[position |-> "bottom-left", containerClass |-> "x"],
     [position |-> "bottom-right", duration |-> 220, id |-> <<"b">>]}

\* a string argument, told apart from an options record (typeof)
Str(m) == [string |-> m]
IsString(x) == "string" \in DOMAIN x

Messages == {Str("x")}

Types == {"info", "success", "error", "warning"}

---------------------------------------------------------------------------
(* Initial state *)

\* a public call: its name, the id it was given or returned, the toast it
\* made, its result, its options, and how many toasts were registered and
\* how many had been made when it was called
Call(op, id, i, ret, args) ==
    [op |-> op, id |-> id, inst |-> i, ret |-> ret, args |-> args,
     registered |-> Len(TOASTS), made |-> Len(insts)]

Init ==
    /\ browser \in BOOLEAN
    /\ now = 0
    /\ TOASTS = <<>>
    /\ CONTAINERS = <<>>
    /\ globalConfig = NoOpts
    /\ insts = <<>>
    /\ timers = <<>>
    /\ raf = {}
    /\ styleCount = 0
    /\ last = [op |-> "init", id |-> EmptyId, inst |-> 0, ret |-> "void",
               args |-> NoOpts, registered |-> 0, made |-> 0]

---------------------------------------------------------------------------
(* notify *)

\* line 206: a bare message is combined with the secondary options record
OptsBase(messageOrOpts, maybeOpts) ==
    IF IsString(messageOrOpts)
    THEN Assign([message |-> messageOrOpts.string], maybeOpts)
    ELSE messageOrOpts

\* the configuration applied over the call's options
MergedConfigLast(optsBase) == Assign(Assign(DEFAULTS, optsBase), globalConfig)

\* line 207: DEFAULTS, then globalConfig, then the call's options
Merged(optsBase) == Assign(Assign(DEFAULTS, globalConfig), optsBase)

\* line 208: an empty id is replaced by a generated one
Resolved(optsBase, r) ==
    LET m == Merged(optsBase)
    IN  IF m.id = EmptyId THEN [m EXCEPT !.id = makeId(r)] ELSE m

NewToast(opts, el, handle) ==
    [id |-> opts.id, opts |-> opts, parent |-> el, hide |-> FALSE,
     timeoutId |-> handle,
     remaining |-> IF opts.pauseOnHover THEN opts.duration ELSE 0,
     start |-> now,
     hovered |-> FALSE, closes |-> 0, shown |-> now, hoverTotal |-> 0,
     everHovered |-> FALSE, asked |-> FALSE]

NotifyBase(optsBase, op) ==
    IF ~browser
    THEN /\ last' = Call(op, EmptyId, 0, "null", optsBase)
         /\ UNCHANGED <<browser, now, TOASTS, CONTAINERS, globalConfig, insts,
                        timers, raf, styleCount>>
    ELSE \E r \in Suffixes :
         LET opts == Resolved(optsBase, r)
             C == containerFor(CONTAINERS, opts.position, opts.containerClass)
             el == ContainerEl(C, KeyOf(opts.position, opts.containerClass))
             i == Len(insts) + 1
             sticky == opts.duration = 0
         IN  /\ i <= MaxInst
             /\ styleCount' = IF opts.injectStyles
                              THEN injectDefaultStyles(styleCount)
                              ELSE styleCount
             /\ CONTAINERS' = C
             /\ TOASTS' = MapSet(TOASTS, opts.id, i)
             /\ raf' = raf \cup {i}
             \* setAutoDismiss
             /\ insts' = Append(insts,
                    NewToast(opts, el, IF sticky THEN 0 ELSE FreshHandle(Heap)))
             /\ timers' = IF sticky THEN timers
                          ELSE Append(timers,
                              AutoTimer(FreshHandle(Heap), opts.id, i,
                                        now + opts.duration))
             /\ TimersFit
             /\ last' = Call(op, opts.id, i, "id", optsBase)
             /\ UNCHANGED <<browser, now, globalConfig>>

Notify(messageOrOpts, maybeOpts) ==
    NotifyBase(OptsBase(messageOrOpts, maybeOpts), "notify")

\* success / error / info / warning
Wrapper(type, msgOrOpts, maybe) ==
    NotifyBase(Assign(OptsBase(msgOrOpts, maybe), [type |-> type]), type)

---------------------------------------------------------------------------
(* dismiss, the close control, clear, configure *)

\* bookkeeping: the registered toasts a caller has asked to dismiss
Asked(h, T, ids) ==
    [h EXCEPT !.insts =
        [k \in 1..Len(h.insts) |->
            IF \E j \in 1..Len(T) : T[j].inst = k /\ T[j].id \in ids
            THEN [h.insts[k] EXCEPT !.asked = TRUE]
            ELSE h.insts[k]]]

DismissCall(id, op, i) ==
    /\ last' = Call(op, id, i, "void", NoOpts)
    /\ IF ~browser THEN UNCHANGED <<insts, timers>>
       ELSE /\ SetHeap(Asked(DismissOn(Heap, TOASTS, id), TOASTS, {id}))
            /\ TimersFit
    /\ UNCHANGED <<browser, now, TOASTS, CONTAINERS, globalConfig, raf, styleCount>>

Dismiss(id) == DismissCall(id, "dismiss", 0)

\* the close button of an attached, closable toast is clicked (line 189)
CloseClick(i) ==
    /\ i \in 1..Len(insts)
    /\ insts[i].parent # 0
    /\ insts[i].opts.closable
    /\ DismissCall(insts[i].id, "close", i)

Clear ==
    /\ last' = Call("clear", EmptyId, 0, "void", NoOpts)
    /\ IF ~browser THEN UNCHANGED <<insts, timers>>
       ELSE /\ SetHeap(Asked(DismissAll(Heap, TOASTS, Keys(TOASTS)), TOASTS,
                             {TOASTS[k].id : k \in 1..Len(TOASTS)}))
            /\ TimersFit
    /\ UNCHANGED <<browser, now, TOASTS, CONTAINERS, globalConfig, raf, styleCount>>

\* the given fields replacing the configuration
ConfigureReplace(options) ==
    /\ globalConfig' = options
    /\ last' = Call("configure", EmptyId, 0, "void", options)
    /\ UNCHANGED <<browser, now, TOASTS, CONTAINERS, insts, timers,
                   raf, styleCount>>

Configure(options) ==
    /\ globalConfig' = Assign(globalConfig, options)
    /\ last' = Call("configure", EmptyId, 0, "void", options)
    /\ UNCHANGED <<browser, now, TOASTS, CONTAINERS, insts, timers,
                   raf, styleCount>>

---------------------------------------------------------------------------
(* Pointer events on an attached toast element (lines 228-239) *)

MouseEnter(i) ==
    /\ i \in 1..Len(insts)
    /\ insts[i].parent # 0
    /\ ~insts[i].hovered
    /\ LET t == insts[i]
           paused == t.opts.pauseOnHover /\ t.timeoutId # 0
       IN  /\ insts' = [insts EXCEPT
                 ![i].hovered = TRUE,
                 ![i].everHovered = TRUE,
                 ![i].remaining = IF paused
                                  THEN Max(0, t.remaining - (now - t.start))
                                  ELSE t.remaining]
           /\ timers' = IF paused THEN clearTimeout(timers, t.timeoutId)
                        ELSE timers
    /\ UNCHANGED <<last, browser, now, TOASTS, CONTAINERS, globalConfig, raf, styleCount>>

MouseLeave(i) ==
    /\ i \in 1..Len(insts)
    /\ insts[i].parent # 0
    /\ insts[i].hovered
    /\ LET t == insts[i]
           resume == t.opts.pauseOnHover /\ t.remaining > 0
       IN  /\ insts' = [insts EXCEPT
                 ![i].hovered = FALSE,
                 ![i].start = IF resume THEN now ELSE t.start,
                 ![i].timeoutId = IF resume THEN FreshHandle(Heap)
                                  ELSE t.timeoutId]
           /\ timers' = IF resume
                        THEN Append(timers,
                            AutoTimer(FreshHandle(Heap), t.opts.id, i,
                                      now + t.remaining))
                        ELSE timers
    /\ TimersFit
    /\ UNCHANGED <<last, browser, now, TOASTS, CONTAINERS, globalConfig, raf, styleCount>>

---------------------------------------------------------------------------
(* Scheduled callbacks *)

Drop(ts, k) == SubSeq(ts, 1, k - 1) \o SubSeq(ts, k + 1, Len(ts))

\* an auto-dismiss timer runs: dismiss(id) (lines 199 and 237)
AutoFire(k) ==
    /\ k \in 1..Len(timers) /\ timers[k].kind = "auto" /\ MayRun(k)
    /\ SetHeap(DismissOn([Heap EXCEPT !.timers = Drop(timers, k)], TOASTS,
                         timers[k].id))
    /\ UNCHANGED <<last, browser, now, TOASTS, CONTAINERS, globalConfig, raf, styleCount>>

\* the removal callback of dismiss runs (lines 273-278)
RemoveFire(k) ==
    /\ k \in 1..Len(timers) /\ timers[k].kind = "remove" /\ MayRun(k)
    /\ timers' = Drop(timers, k)
    /\ insts' = [insts EXCEPT
          ![timers[k].inst].parent = 0,
          ![timers[k].inst].hovered = FALSE,
          ![timers[k].inst].closes = @ + 1]
    /\ TOASTS' = MapDelete(TOASTS, timers[k].id)
    /\ UNCHANGED <<last, browser, now, CONTAINERS, globalConfig, raf, styleCount>>

\* the requestAnimationFrame callback of notify runs (lines 221-223)
RafFire(i) ==
    /\ i \in raf
    /\ raf' = raf \ {i}
    /\ insts' = [insts EXCEPT ![i].hide = FALSE]
    /\ UNCHANGED <<last, browser, now, TOASTS, CONTAINERS, globalConfig, timers,
                   styleCount>>

\* time passes; a frame is shorter than a step, so the pending frame
\* callbacks have run by then
Tick(d) ==
    /\ raf = {}
    /\ now + d <= MaxTime
    /\ now' = now + d
    /\ insts' = [k \in 1..Len(insts) |->
          IF insts[k].hovered
          THEN [insts[k] EXCEPT !.hoverTotal = @ + d]
          ELSE insts[k]]
    /\ UNCHANGED <<last, browser, TOASTS, CONTAINERS, globalConfig, timers, raf,
                   styleCount>>

---------------------------------------------------------------------------
(* Specifications *)

\* the life of toasts shown with caller-supplied ids
Next ==
    \/ \E o \in LifeOpts : Notify(o, NoOpts)
    \/ \E id \in UserIds : Dismiss(id)
    \/ \E i \in 1..MaxInst : CloseClick(i)
    \/ Clear
    \/ \E k \in 1..MaxTimers : AutoFire(k)
    \/ \E k \in 1..MaxTimers : RemoveFire(k)
    \/ \E i \in raf : RafFire(i)
    \/ \E d \in Steps : Tick(d)

Spec == Init /\ [][Next]_vars

\* two toasts shown under one id, and the pointer
NextReuse ==
    \/ \E o \in ReuseOpts : Notify(o, NoOpts)
    \/ \E i \in 1..MaxInst : MouseEnter(i)
    \/ \E i \in 1..MaxInst : MouseLeave(i)
    \/ \E k \in 1..MaxTimers : AutoFire(k)
    \/ \E k \in 1..MaxTimers : RemoveFire(k)
    \/ \E i \in raf : RafFire(i)
    \/ \E d \in Steps : Tick(d)

SpecReuse == Init /\ [][NextReuse]_vars

\* one toast and the pointer
NextHover ==
    \/ \E o \in HoverOpts : insts = <<>> /\ Notify(o, NoOpts)
    \/ \E id \in UserIds : Dismiss(id)
    \/ \E i \in 1..MaxInst : CloseClick(i)
    \/ Clear
    \/ \E i \in 1..MaxInst : MouseEnter(i)
    \/ \E i \in 1..MaxInst : MouseLeave(i)
    \/ \E k \in 1..MaxTimers : AutoFire(k)
    \/ \E k \in 1..MaxTimers : RemoveFire(k)
    \/ \E i \in raf : RafFire(i)
    \/ \E d \in Steps : Tick(d)

SpecHover == Init /\ [][NextHover]_vars

\* toasts shown at several positions and container classes, and removed
NextPlace ==
    \/ \E o \in PlaceOpts : Notify(o, NoOpts)
    \/ \E id \in UserIds : Dismiss(id)
    \/ Clear
    \/ \E k \in 1..MaxTimers : RemoveFire(k)
    \/ \E i \in raf : RafFire(i)
    \/ Tick(TRANSITION_MS)

SpecPlace == Init /\ [][NextPlace]_vars

\* one toast under each of two ids, the pointer on either, timers, and dismiss
\* calls for one of the ids
NextPair ==
    \/ \E o \in PairOpts :
           /\ \A i \in 1..Len(insts) : insts[i].id # o.id
           /\ Notify(o, NoOpts)
    \/ Dismiss(<<"a">>)
    \/ \E i \in 1..MaxInst : MouseEnter(i)
    \/ \E i \in 1..MaxInst : MouseLeave(i)
    \/ \E k \in 1..MaxTimers : AutoFire(k)
    \/ \E k \in 1..MaxTimers : RemoveFire(k)
    \/ \E i \in raf : RafFire(i)
    \/ Tick(TRANSITION_MS)

SpecPair == Init /\ [][NextPair]_vars

\* the forms of the public calls and the configuration, at one instant
\* (no callback runs)
NextApi ==
    \/ \E o \in ApiOpts : Notify(o, NoOpts)
    \/ \E m \in Messages, o \in MaybeOpts : Notify(m, o)
    \/ \E ty \in Types, o \in WrapOpts : Wrapper(ty, o, NoOpts)
    \/ \E o \in ConfigOpts : Configure(o)
    \/ Clear

SpecApi == Init /\ [][NextApi]_vars

---------------------------------------------------------------------------
(* Properties *)

NotifyOps == {"notify"} \cup Types

\* this step is a call of notify or of a severity wrapper
NotifyStep == last' # last /\ last'.op \in NotifyOps

\* this step is a call of configure
ConfigureStep == last' # last /\ last'.op = "configure"

EntriesOf(T, id) == {k \in 1..Len(T) : T[k].id = id}

PlaceOf(C, t) == ContainerEl(C, KeyOf(t.opts.position, t.opts.containerClass))

\* the value of field f by precedence: the call, then the configuration,
\* then the built-in default
Precedence(args, config, f) ==
    IF f \in DOMAIN args THEN args[f]
    ELSE IF f \in DOMAIN config THEN config[f]
    ELSE DEFAULTS[f]

\* C1: in a browser, notify returns a non-empty identifier, and right after
\* the call the registry holds exactly one entry for it, which is the toast
\* this call made and attached to the container of its position.
C1_NotifyRegisters ==
    [][(browser /\ NotifyStep) =>
        LET id == last'.id
            i == last'.inst
        IN  /\ last'.ret = "id"
            /\ id # EmptyId
            /\ i = Len(insts) + 1
            /\ Len(insts') = i
            /\ Cardinality(EntriesOf(TOASTS', id)) = 1
            /\ Inst(TOASTS', id) = i
            /\ insts'[i].id = id
            /\ insts'[i].parent = PlaceOf(CONTAINERS', insts'[i])
            /\ insts'[i].parent # 0]_vars

\* a second notify has reused the id of the first
C1_Witness ==
    /\ browser
    /\ last.op = "notify"
    /\ last.inst = 2
    /\ insts[1].id = insts[2].id
    /\ Inst(TOASTS, last.id) = 2

\* C9: configure merges the given fields over the configured ones and
\* changes nothing else; a later notify takes every configured field its
\* call does not supply from the configuration and is placed accordingly.
C9_ConfigureFrame ==
    [][/\ ConfigureStep =>
            /\ UNCHANGED <<TOASTS, CONTAINERS, insts, timers, raf, styleCount>>
            /\ DOMAIN globalConfig' = DOMAIN globalConfig \cup DOMAIN last'.args
            /\ \A f \in DOMAIN last'.args : globalConfig'[f] = last'.args[f]
            /\ \A f \in DOMAIN globalConfig \ DOMAIN last'.args :
                   globalConfig'[f] = globalConfig[f]
       /\ (browser /\ NotifyStep) =>
            LET t == insts'[last'.inst]
            IN  /\ \A f \in DOMAIN globalConfig \ DOMAIN last'.args :
                       (f = "id" /\ globalConfig[f] = EmptyId)
                           \/ t.opts[f] = globalConfig[f]
                /\ t.parent = PlaceOf(CONTAINERS', t)
                /\ \A k \in 1..Len(insts) : insts'[k] = insts[k]]_vars

\* a toast was shown top-right, bottom-left was configured, and the next
\* notify, which gave no position, went to another container
C9_Witness ==
    /\ browser
    /\ last.op = "notify"
    /\ last.inst = 2
    /\ "position" \notin DOMAIN last.args
    /\ insts[1].opts.position = "top-right"
    /\ insts[2].opts.position = "bottom-left"
    /\ insts[1].parent # insts[2].parent

\* C10 as stated: every field, the id included, resolves by precedence.
C10_Original ==
    [][(browser /\ NotifyStep) =>
        \A f \in FieldNames :
            insts'[last'.inst].opts[f] = Precedence(last'.args, globalConfig, f)]_vars

\* C10, amended: every field but the id resolves by precedence; the id does
\* too when that value is not empty, and is a generated one otherwise.
C10_Precedence ==
    [][(browser /\ NotifyStep) =>
        LET o == insts'[last'.inst].opts
            id == Precedence(last'.args, globalConfig, "id")
        IN  /\ \A f \in FieldNames \ {"id"} :
                   o[f] = Precedence(last'.args, globalConfig, f)
            /\ IF id # EmptyId THEN o.id = id
               ELSE o.id # EmptyId /\ \E r \in Suffixes : o.id = makeId(r)]_vars

\* a call that supplied a duration the configuration also sets, and left
\* the position to the configuration
C10_Witness ==
    /\ browser
    /\ last.op = "notify"
    /\ "duration" \in DOMAIN last.args \cap DOMAIN globalConfig
    /\ "position" \in DOMAIN globalConfig \ DOMAIN last.args
    /\ last.args.duration # globalConfig.duration
    /\ insts[last.inst].opts.duration = last.args.duration
    /\ insts[last.inst].opts.position = globalConfig.position

---------------------------------------------------------------------------
(* The life of a toast *)

AutosFor(ts, i) == {k \in 1..Len(ts) : ts[k].kind = "auto" /\ ts[k].inst = i}

RemovalsFor(ts, i) == {k \in 1..Len(ts) : ts[k].kind = "remove" /\ ts[k].inst = i}

\* no call has dismissed a registered toast
NoneAsked == \A j \in 1..Len(insts) : ~insts[j].asked

\* C2 as stated: when a removal callback has run, the identifier is out of
\* the registry, the element is detached and onClose has run exactly once.
C2_Original ==
    [][\A i \in 1..Len(insts) :
        insts'[i].closes # insts[i].closes =>
            /\ ~Has(TOASTS', insts[i].id)
            /\ insts'[i].parent = 0
            /\ insts'[i].closes = 1]_vars

\* C3 as stated: dismiss(id) on a toast whose removal callback is pending
\* schedules nothing more, and onClose never runs a second time.
C3_Original ==
    [][/\ \A id \in UserIds :
            (/\ browser
             /\ Has(TOASTS, id)
             /\ RemovalsFor(timers, Inst(TOASTS, id)) # {}
             /\ Dismiss(id)) => UNCHANGED timers
       /\ \A i \in 1..Len(insts') : insts'[i].closes <= 1]_vars

\* C4 as stated: a toast of duration 0 never has an auto-dismiss timer, and
\* while no call has dismissed anything its id is registered and its element
\* attached.
C4_Original ==
    \A i \in 1..Len(insts) :
        insts[i].opts.duration = 0 =>
            /\ AutosFor(timers, i) = {}
            /\ NoneAsked => Has(TOASTS, insts[i].id) /\ insts[i].parent # 0

\* C5 as stated: a toast of duration D > 0, never hovered, while no call has
\* dismissed anything: its timer is due D after show, nothing dismisses it
\* before, and its removal is due no sooner than 220 ms after that.
C5_Original ==
    \A i \in 1..Len(insts) :
        LET t == insts[i]
            D == t.opts.duration
        IN  (D > 0 /\ ~t.everHovered /\ NoneAsked) =>
                /\ \A k \in AutosFor(timers, i) : timers[k].due = t.shown + D
                /\ now < t.shown + D =>
                       /\ RemovalsFor(timers, i) = {}
                       /\ t.parent # 0
                       /\ AutosFor(timers, i) # {}
                /\ \A k \in RemovalsFor(timers, i) :
                       timers[k].due >= t.shown + D + TRANSITION_MS
                /\ t.parent = 0 => now >= t.shown + D + TRANSITION_MS

\* C6 as stated: for a toast with pauseOnHover and duration D > 0, while no
\* call has dismissed anything: no timer is pending while the pointer is on
\* it, a pending timer is due at show + D + the time hovered so far, and its
\* dismissal is never triggered before that.
C6_Original ==
    [][\A i \in 1..Len(insts) :
        LET t == insts[i]
            D == t.opts.duration
        IN  (t.opts.pauseOnHover /\ D > 0 /\ NoneAsked /\ NoneAsked') =>
                /\ t.hovered => AutosFor(timers, i) = {}
                /\ \A k \in AutosFor(timers, i) :
                       timers[k].due = t.shown + D + t.hoverTotal
                /\ Cardinality(RemovalsFor(timers', i))
                       > Cardinality(RemovalsFor(timers, i))
                     => now >= t.shown + D + t.hoverTotal]_vars

\* C7: clear() hides every registered toast, cancels its auto-dismiss timer
\* and schedules its removal 220 ms on; once no removal callback is pending,
\* every toast a call has dismissed is detached, out of the registry and has
\* had its onClose run, and if nothing was shown since the clear the registry
\* is empty.
C7_Cleared ==
    \A i \in 1..Len(insts) :
        (insts[i].asked /\ RemovalsFor(timers, i) = {}) =>
            /\ insts[i].closes >= 1
            /\ insts[i].parent = 0
            /\ \A k \in 1..Len(TOASTS) : TOASTS[k].inst # i

C7_Settled ==
    (/\ browser
     /\ last.op = "clear"
     /\ Len(insts) = last.made
     /\ \A k \in 1..Len(timers) : timers[k].kind # "remove")
        => TOASTS = <<>>

C7_ClearDismissesAll ==
    /\ [][(browser /\ Clear) =>
            \A k \in 1..Len(TOASTS) :
                LET i == TOASTS[k].inst
                IN  /\ insts'[i].hide
                    /\ AutosFor(timers', i) = {}
                    /\ Cardinality(RemovalsFor(timers', i))
                           = Cardinality(RemovalsFor(timers, i)) + 1
                    /\ \E j \in RemovalsFor(timers', i) :
                           /\ timers'[j].due = now + TRANSITION_MS
                           /\ timers'[j].id = TOASTS[k].id]_vars
    /\ [](C7_Cleared /\ C7_Settled)

\* clear() was called with two toasts registered, nothing was shown since,
\* and both removal callbacks have run
C7_Witness ==
    /\ browser
    /\ last.op = "clear"
    /\ last.registered = 2
    /\ Len(insts) = last.made
    /\ timers = <<>>
    /\ TOASTS = <<>>
    /\ \A i \in 1..Len(insts) : insts[i].asked => insts[i].closes >= 1

\* C8: dismiss(id) with an id that is not registered changes nothing: not the
\* registry, the containers, the toasts and their onClose counts, the pending
\* callbacks, the styles or the configuration.
C8_UnknownDismissNoOp ==
    [][\A id \in UserIds :
        (~Has(TOASTS, id) /\ Dismiss(id)) =>
            UNCHANGED <<TOASTS, CONTAINERS, globalConfig, insts, timers, raf,
                        styleCount>>]_vars

\* dismiss was called last, with the id of a toast already removed, while
\* another toast is registered with its timer pending
C8_Witness ==
    /\ browser
    /\ last.op = "dismiss"
    /\ last.registered = 1
    /\ ~Has(TOASTS, last.id)
    /\ TOASTS # <<>>
    /\ \E i \in 1..Len(insts) : insts[i].id = last.id /\ insts[i].closes = 1
    /\ \E k \in 1..Len(timers) : timers[k].kind = "auto"

---------------------------------------------------------------------------
(* Without a rendering surface *)

\* C12 as stated: without a rendering surface no public call changes the
\* registry, the containers, the configuration or the pending callbacks, and
\* notify and the wrappers return null.
C12_Original ==
    [][~browser =>
        /\ UNCHANGED <<TOASTS, CONTAINERS, globalConfig, timers, insts>>
        /\ NotifyStep => last'.ret = "null"]_vars

---------------------------------------------------------------------------
(* Timers and the order of a toast's callbacks *)

TasksFor(ts, i) == AutosFor(ts, i) \cup RemovalsFor(ts, i)

\* C13 as stated: once dismiss or clear has reached a toast, no auto-dismiss
\* timer of that toast is pending, whatever the pointer does afterwards.
C13_Original ==
    \A i \in 1..Len(insts) :
        insts[i].asked => AutosFor(timers, i) = {}

\* C14 as stated: a toast never has more than one scheduled task (auto-dismiss
\* timer or removal callback) outstanding.
C14_Original ==
    \A i \in 1..Len(insts) : Cardinality(TasksFor(timers, i)) <= 1

\* C15 as stated: the toast registered under an id is attached, and no other
\* attached toast carries that id.
C15_Original ==
    \A k \in 1..Len(TOASTS) :
        /\ insts[TOASTS[k].inst].parent # 0
        /\ \A j \in 1..Len(insts) :
               (j # TOASTS[k].inst /\ insts[j].id = TOASTS[k].id)
                   => insts[j].parent = 0

\* C16 as stated: an auto-dismiss timer that runs dismisses the toast it was
\* scheduled for, and schedules the removal of no other toast.
C16_Original ==
    [][\A k \in 1..Len(timers) :
        AutoFire(k) =>
            /\ insts'[timers[k].inst].hide
            /\ \A j \in 1..Len(insts) :
                   Cardinality(RemovalsFor(timers', j))
                       > Cardinality(RemovalsFor(timers, j))
                     => j = timers[k].inst]_vars

\* C17 as stated: for a single toast, once its dismissal has been triggered
\* (its removal callback is pending, or has run) the pointer arms no
\* auto-dismiss timer for it again.
C17_Original ==
    \A i \in 1..Len(insts) :
        (RemovalsFor(timers, i) # {} \/ insts[i].closes >= 1)
            => AutosFor(timers, i) = {}

\* C19 as stated, as the condition a finite run refutes: a toast of duration
\* > 0 that is attached with the pointer away has a task pending (its timer
\* or its removal); with none pending no callback will ever remove it.
C19_Original ==
    \A i \in 1..Len(insts) :
        (insts[i].opts.duration > 0 /\ insts[i].parent # 0 /\ ~insts[i].hovered)
            => TasksFor(timers, i) # {}

\* C20 as stated: a removal callback deletes only the registry entry of the
\* toast it was scheduled for; an entry made by a later notify under the same
\* id survives it.
C20_Original ==
    [][\A k \in 1..Len(timers) :
        RemoveFire(k) =>
            \A j \in 1..Len(TOASTS) :
                TOASTS[j].inst # timers[k].inst
                    => \E m \in 1..Len(TOASTS') : TOASTS'[m] = TOASTS[j]]_vars

---------------------------------------------------------------------------
(* Containers *)

PairOf(t) == <<t.opts.position, t.opts.containerClass>>

PairsUsed == {PairOf(insts[i]) : i \in 1..Len(insts)}

C11_Containers ==
    /\ \A j, k \in 1..Len(CONTAINERS) :
           j # k => /\ CONTAINERS[j].key # CONTAINERS[k].key
                    /\ CONTAINERS[j].el # CONTAINERS[k].el
    /\ Len(CONTAINERS) = Cardinality(PairsUsed)
    /\ \A i \in 1..Len(insts) :
           LET key == KeyOf(insts[i].opts.position, insts[i].opts.containerClass)
           IN  /\ HasContainer(CONTAINERS, key)
               /\ insts[i].parent # 0
                      => insts[i].parent = ContainerEl(CONTAINERS, key)
    /\ \A i, j \in 1..Len(insts) :
           (insts[i].parent # 0 /\ insts[j].parent # 0) =>
               (insts[i].parent = insts[j].parent
                    <=> PairOf(insts[i]) = PairOf(insts[j]))

\* C11: there is exactly one container per (position, containerClass) pair
\* ever used; toasts of one pair are in the same container, toasts of
\* different pairs in different ones, and no step removes or replaces a
\* container, whether or not it still holds a toast.
C11_OneContainerPerPair ==
    /\ [](browser => C11_Containers)
    /\ [][\A k \in 1..Len(CONTAINERS) :
            /\ k <= Len(CONTAINERS')
            /\ CONTAINERS'[k] = CONTAINERS[k]]_vars

\* two toasts of different pairs were shown and removed, and both containers
\* are still there, empty
C11_Witness ==
    /\ browser
    /\ Len(insts) = 2
    /\ PairOf(insts[1]) # PairOf(insts[2])
    /\ insts[1].closes = 1 /\ insts[2].closes = 1
    /\ insts[1].parent = 0 /\ insts[2].parent = 0
    /\ TOASTS = <<>>
    /\ Len(CONTAINERS) = 2

---------------------------------------------------------------------------
(* Toasts under different ids *)

OtherTimers(ts, id) == SelectSeq(ts, LAMBDA t : t.id # id)

\* a step on the toasts of id: a dismiss call, a timer or removal callback
\* scheduled under it, or a pointer event on an element that carries it
StepOn(id) ==
    \/ Dismiss(id)
    \/ \E k \in 1..Len(timers) :
           timers[k].id = id /\ (AutoFire(k) \/ RemoveFire(k))
    \/ \E i \in 1..Len(insts) :
           insts[i].id = id /\ (MouseEnter(i) \/ MouseLeave(i))

OthersUnchanged(id) ==
    /\ \A j \in 1..Len(insts) : insts[j].id # id => insts'[j] = insts[j]
    /\ \A x \in UserIds \ {id} :
           /\ Has(TOASTS', x) <=> Has(TOASTS, x)
           /\ Has(TOASTS, x) => Inst(TOASTS', x) = Inst(TOASTS, x)
    /\ OtherTimers(timers', id) = OtherTimers(timers, id)

\* C18: a dismiss call, a timer firing, a pointer enter or leave, or a removal
\* callback for a toast of one id leaves every toast of another id as it was:
\* its registry entry, its attachment, its pending timer and removal callback,
\* and its onClose count.
C18_OtherIdsUntouched ==
    [][\A id \in UserIds : StepOn(id) => OthersUnchanged(id)]_vars

\* the toast of one id was hovered, dismissed and removed while the toast of
\* another id, hovered as well, is still registered and attached with its
\* timer pending
C18_Witness ==
    /\ browser
    /\ \E i, j \in 1..Len(insts) :
           /\ insts[i].id # insts[j].id
           /\ insts[i].everHovered /\ insts[i].asked
           /\ insts[i].closes = 1 /\ insts[i].parent = 0
           /\ ~Has(TOASTS, insts[i].id)
           /\ insts[j].everHovered
           /\ insts[j].parent # 0
           /\ Has(TOASTS, insts[j].id)
           /\ AutosFor(timers, j) # {}

===========================================================================
